---- MODULE Spec2Model ----
(***************************************************************************)
(* Dashboard server of the playwright testing framework: the save-testcase *)
(* handler (document patching) and extractElementsFromCode (locator        *)
(* extraction).  Texts are modelled as strings; indices are 0-based as in  *)
(* the JavaScript source (slice(s, a, b) is s.slice(a, b)).                *)
(***************************************************************************)
EXTENDS Integers, Sequences, FiniteSets, TLC

(***************************************************************************)
(* String primitives (String.prototype.indexOf / includes / slice).        *)
(***************************************************************************)
slice(s, a, b) == SubSeq(s, a + 1, b)

CharAt(s, i) == SubSeq(s, i + 1, i + 1)

StartsAt(s, pat, i) ==
    /\ i + Len(pat) <= Len(s)
    /\ SubSeq(s, i + 1, i + Len(pat)) = pat

Least(S) == CHOOSE x \in S : \A y \in S : x <= y

\* s.indexOf(pat, from): the least position >= from where pat occurs, or -1
indexOf(s, pat, from) ==
    LET hits == {i \in from..(Len(s) - Len(pat)) : StartsAt(s, pat, i)}
    IN  IF hits = {} THEN -1 ELSE Least(hits)

includes(s, pat) == indexOf(s, pat, 0) # -1

(***************************************************************************)
(* Regular-expression character classes used by the eight patterns.        *)
(***************************************************************************)
QuoteChars == {"'", "\""}

SpaceChars == {" ", "\n", "\t", "\r"}

WordChars ==
    {"a", "b", "c", "d", "e", "f", "g", "h", "i", "j", "k", "l", "m",
     "n", "o", "p", "q", "r", "s", "t", "u", "v", "w", "x", "y", "z",
     "A", "B", "C", "D", "E", "F", "G", "H", "I", "J", "K", "L", "M",
     "N", "O", "P", "Q", "R", "S", "T", "U", "V", "W", "X", "Y", "Z",
     "0", "1", "2", "3", "4", "5", "6", "7", "8", "9", "_"}

\* end (exclusive) of the greedy run [^'"]* starting at i
SkipNotQuote(s, i) ==
    IF i >= Len(s) THEN i
    ELSE Least({j \in i..Len(s) : j = Len(s) \/ CharAt(s, j) \in QuoteChars})

\* end (exclusive) of the greedy run \w* starting at i
SkipWord(s, i) ==
    IF i >= Len(s) THEN i
    ELSE Least({j \in i..Len(s) : j = Len(s) \/ CharAt(s, j) \notin WordChars})

\* end (exclusive) of the greedy run \s* starting at i
SkipSpace(s, i) ==
    IF i >= Len(s) THEN i
    ELSE Least({j \in i..Len(s) : j = Len(s) \/ CharAt(s, j) \notin SpaceChars})

IsQuoteAt(s, i) == i < Len(s) /\ CharAt(s, i) \in QuoteChars

NoMatch == [found |-> FALSE, end |-> 0, g1 |-> "", g2 |-> ""]

(***************************************************************************)
(* The patterns array.  "call" patterns are                                *)
(*   <prefix>['"]([^'"]+)['"]      followed by \) when close is TRUE;      *)
(* the "role" pattern is                                                   *)
(*   <prefix>['"](\w+)['"]\s*,\s*\{\s*name:\s*['"]([^'"]+)['"]             *)
(***************************************************************************)
patterns ==
    << [kind |-> "call", prefix |-> "page.locator(",          close |-> TRUE],
       [kind |-> "role", prefix |-> "page.getByRole(",        close |-> FALSE],
       [kind |-> "call", prefix |-> "page.getByText(",        close |-> TRUE],
       [kind |-> "call", prefix |-> "page.getByLabel(",       close |-> TRUE],
       [kind |-> "call", prefix |-> "page.getByPlaceholder(", close |-> TRUE],
       [kind |-> "call", prefix |-> "page.click(",            close |-> TRUE],
       [kind |-> "call", prefix |-> "page.fill(",             close |-> FALSE],
       [kind |-> "call", prefix |-> "page.type(",             close |-> FALSE] >>

NumPatterns == Len(patterns)

\* a match of a "call" pattern anchored at position i
MatchCallAt(s, i, p) ==
    LET q1 == i + Len(p.prefix)
        a  == q1 + 1
        b  == SkipNotQuote(s, a)
        e  == IF p.close THEN b + 2 ELSE b + 1
    IN  IF /\ StartsAt(s, p.prefix, i)
           /\ IsQuoteAt(s, q1)
           /\ b > a
           /\ IsQuoteAt(s, b)
           /\ (p.close => StartsAt(s, ")", b + 1))
        THEN [found |-> TRUE, end |-> e, g1 |-> slice(s, a, b), g2 |-> ""]
        ELSE NoMatch

\* a match of the getByRole pattern anchored at position i; the ends of
\* the greedy runs are bound one after the other, each computed once
MatchRoleAt(s, i, p) ==
    LET q1 == i + Len(p.prefix)
        a  == q1 + 1
        Ends ==
            { << b, c, d, f, g, SkipNotQuote(s, g + 1) >> :
                << b, c, d, f, g >> \in
                    { << t[1], t[2], t[3], t[4],
                         SkipSpace(s, t[4] + Len("name:")) >> :
                        t \in { << u[1], u[2], u[3], SkipSpace(s, u[3] + 1) >> :
                            u \in { << v[1], v[2], SkipSpace(s, v[2] + 1) >> :
                                v \in { << w, SkipSpace(s, w + 1) >> :
                                    w \in {SkipWord(s, a)} } } } } }
    IN  IF ~StartsAt(s, p.prefix, i) THEN NoMatch
        ELSE CHOOSE r \in
                 { IF /\ IsQuoteAt(s, q1)
                      /\ z[1] > a
                      /\ IsQuoteAt(s, z[1])
                      /\ StartsAt(s, ",", z[2])
                      /\ StartsAt(s, "{", z[3])
                      /\ StartsAt(s, "name:", z[4])
                      /\ IsQuoteAt(s, z[5])
                      /\ z[6] > z[5] + 1
                      /\ IsQuoteAt(s, z[6])
                   THEN [found |-> TRUE, end |-> z[6] + 1,
                         g1 |-> slice(s, a, z[1]),
                         g2 |-> slice(s, z[5] + 1, z[6])]
                   ELSE NoMatch : z \in Ends } : TRUE

MatchAt(s, i, p) ==
    IF p.kind = "role" THEN MatchRoleAt(s, i, p) ELSE MatchCallAt(s, i, p)

\* exec of a pattern without the g flag: lastIndex is ignored
execFromStart(p, s, from) ==
    LET hits == {i \in 0..(Len(s) - 1) : MatchAt(s, i, p).found}
    IN  IF hits = {} THEN NoMatch ELSE MatchAt(s, Least(hits), p)

\* RegExp.prototype.exec of a /g pattern: leftmost match at or after lastIndex
exec(p, s, from) ==
    LET hits == {i \in from..(Len(s) - 1) : MatchAt(s, i, p).found}
    IN  IF hits = {} THEN NoMatch ELSE MatchAt(s, Least(hits), p)

(***************************************************************************)
(* extractElementsFromCode: classification chain of one match.             *)
(***************************************************************************)
\* the classification chain with the button rule tried before the input rule
actionTypeButtonFirst(code, selector) ==
    IF \/ includes(code, "locator('" \o selector \o "').click()")
       \/ includes(code, "click('" \o selector \o "')")
    THEN "BUTTON"
    ELSE IF \/ includes(code, "locator('" \o selector \o "').fill()")
            \/ includes(code, "fill('" \o selector \o "')")
    THEN "TEXTBOX"
    ELSE IF includes(selector, "button") \/ includes(selector, "btn")
    THEN "BUTTON"
    ELSE IF includes(selector, "input") THEN "INPUT"
    ELSE IF includes(selector, "icon") THEN "ICON"
    ELSE IF includes(selector, "link") \/ includes(selector, "a[")
    THEN "LINK"
    ELSE "ELEMENT"

actionTypeOf(code, selector) ==
    IF \/ includes(code, "locator('" \o selector \o "').click()")
       \/ includes(code, "click('" \o selector \o "')")
    THEN "BUTTON"
    ELSE IF \/ includes(code, "locator('" \o selector \o "').fill()")
            \/ includes(code, "fill('" \o selector \o "')")
    THEN "TEXTBOX"
    ELSE IF includes(selector, "input") THEN "INPUT"
    ELSE IF includes(selector, "button") \/ includes(selector, "btn")
    THEN "BUTTON"
    ELSE IF includes(selector, "icon") THEN "ICON"
    ELSE IF includes(selector, "link") \/ includes(selector, "a[")
    THEN "LINK"
    ELSE "ELEMENT"

\* the selector the loop takes from a match: match[1]
selectorOf(m) == m.g1

\* locals of extractElementsFromCode before the first pattern is scanned
ExtractStart ==
    [pidx |-> 1, lastIndex |-> 0, seenSelectors |-> {},
     elements |-> << >>, counter |-> 1]

ExtractDone(e) == e.pidx > NumPatterns

\* the loop body with the counter stepped before the seenSelectors check
ExtractStepCountsSkipped(code, e) ==
    LET m == exec(patterns[e.pidx], code, e.lastIndex)
    IN  IF ~m.found
        THEN [e EXCEPT !.pidx = e.pidx + 1, !.lastIndex = 0]
        ELSE LET selector   == selectorOf(m)
                 actionType == actionTypeOf(code, selector)
             IN  IF selector \in e.seenSelectors
                 THEN [e EXCEPT !.lastIndex = m.end,
                                !.counter = e.counter + 1]
                 ELSE [e EXCEPT
                         !.lastIndex = m.end,
                         !.seenSelectors = e.seenSelectors \cup {selector},
                         !.counter = e.counter + 1,
                         !.elements = Append(e.elements,
                             [name |-> actionType \o "_" \o ToString(e.counter),
                              selector |-> selector,
                              type |-> actionType])]

\* the loop body with a duplicate putting lastIndex back where the scan was
ExtractStepDuplicateStalls(code, e) ==
    LET OnMatch(m) ==
            IF ~m.found
            THEN [e EXCEPT !.pidx = e.pidx + 1, !.lastIndex = 0]
            ELSE LET selector   == selectorOf(m)
                     actionType == actionTypeOf(code, selector)
                 IN  IF selector \in e.seenSelectors
                     THEN [e EXCEPT !.lastIndex = e.lastIndex]
                     ELSE [e EXCEPT
                             !.lastIndex = m.end,
                             !.seenSelectors = e.seenSelectors \cup {selector},
                             !.counter = e.counter + 1,
                             !.elements = Append(e.elements,
                                 [name |-> actionType \o "_"
                                               \o ToString(e.counter),
                                  selector |-> selector,
                                  type |-> actionType])]
    IN  CHOOSE n \in { OnMatch(m) :
                          m \in {exec(patterns[e.pidx], code, e.lastIndex)} } :
            TRUE

\* the loop body without the seenSelectors check
ExtractStepNoDedup(code, e) ==
    LET m == exec(patterns[e.pidx], code, e.lastIndex)
    IN  IF ~m.found
        THEN [e EXCEPT !.pidx = e.pidx + 1, !.lastIndex = 0]
        ELSE LET selector   == selectorOf(m)
                 actionType == actionTypeOf(code, selector)
             IN  [e EXCEPT
                     !.lastIndex = m.end,
                     !.seenSelectors = e.seenSelectors \cup {selector},
                     !.counter = e.counter + 1,
                     !.elements = Append(e.elements,
                         [name |-> actionType \o "_" \o ToString(e.counter),
                          selector |-> selector,
                          type |-> actionType])]

\* one evaluation of the while condition and, on a match, of the loop body;
\* match is the one value pattern.exec(code) returned (OnMatch is applied to
\* the single member of a set so that exec is evaluated once)
ExtractStep(code, e) ==
    LET OnMatch(m) ==
            IF ~m.found
            THEN [e EXCEPT !.pidx = e.pidx + 1, !.lastIndex = 0]
            ELSE LET selector   == selectorOf(m)
                     actionType == actionTypeOf(code, selector)
                 IN  IF selector \in e.seenSelectors
                     THEN [e EXCEPT !.lastIndex = m.end]
                     ELSE [e EXCEPT
                             !.lastIndex = m.end,
                             !.seenSelectors = e.seenSelectors \cup {selector},
                             !.counter = e.counter + 1,
                             !.elements = Append(e.elements,
                                 [name |-> actionType \o "_"
                                               \o ToString(e.counter),
                                  selector |-> selector,
                                  type |-> actionType])]
    IN  CHOOSE n \in { OnMatch(m) :
                          m \in {exec(patterns[e.pidx], code, e.lastIndex)} } :
            TRUE

RECURSIVE ExtractRun(_, _)
ExtractRun(code, e) ==
    IF ExtractDone(e) THEN e ELSE ExtractRun(code, ExtractStep(code, e))

extractElementsFromCode(code) == ExtractRun(code, ExtractStart).elements

(***************************************************************************)
(* save-testcase handler: rendering of the inserted entry.                 *)
(***************************************************************************)
\* a template literal ${testCaseData.f}; a missing field renders "undefined"
Field(d, f) == IF f \in DOMAIN d THEN d[f] ELSE "undefined"

\* new Date(timestamp).toLocaleString()
DateToLocaleString(ts) ==
    IF ts = "2024-01-15T10:30:00" THEN "1/15/2024, 10:30:00 AM"
    ELSE "Invalid Date"

\* the lines of the fenced block, last element first
RECURSIVE elementLinesReversed(_)
elementLinesReversed(els) ==
    IF els = << >> THEN ""
    ELSE elementLinesReversed(Tail(els))
         \o Head(els).name \o " = \"" \o Head(els).selector \o "\"\n"

RECURSIVE elementLines(_)
elementLines(els) ==
    IF els = << >> THEN ""
    ELSE Head(els).name \o " = \"" \o Head(els).selector \o "\"\n"
         \o elementLines(Tail(els))

\* The fenced-code marker.  A TLA+ string cannot hold the backquote, so the
\* three backquotes of the source are written as three tildes; no input of
\* the model contains a tilde.
Fence == "~~~"

\* elementsSection without its leading blank line
elementsSectionNoSeparator(d, elements) ==
    IF Len(elements) > 0
    THEN "### " \o Field(d, "name")
         \o " Page Elements\n\n" \o Fence \o "typescript\n"
         \o elementLines(elements) \o Fence
    ELSE ""

\* elementsSection built whether or not an element was extracted
elementsSectionAlways(d, elements) ==
    "\n\n### " \o Field(d, "name")
    \o " Page Elements\n\n" \o Fence \o "typescript\n"
    \o elementLines(elements) \o Fence

elementsSectionOf(d, elements) ==
    IF Len(elements) > 0
    THEN "\n\n### " \o Field(d, "name")
         \o " Page Elements\n\n" \o Fence \o "typescript\n"
         \o elementLines(elements) \o Fence
    ELSE ""

\* testCaseType taken from the body without the 'UI' default
testCaseTypeNoDefault(d) == Field(d, "testCaseType")

testCaseTypeOf(d) ==
    IF "testCaseType" \in DOMAIN d /\ d.testCaseType # ""
    THEN d.testCaseType ELSE "UI"

testCaseEntryOf(d, elements) ==
    elementsSectionOf(d, elements)
    \o "\n\n### " \o Field(d, "name") \o " Test\n\n**"
    \o Field(d, "name") \o "**: " \o Field(d, "description")
    \o "\n- Type: " \o testCaseTypeOf(d)
    \o "\n- " \o Field(d, "steps")
    \o "\n- Browser: " \o Field(d, "browser")
    \o "\n- URL: " \o Field(d, "url")
    \o "\n- Recorded: " \o DateToLocaleString(Field(d, "timestamp"))

(***************************************************************************)
(* save-testcase handler: placement of the entry in the document.          *)
(***************************************************************************)
AnchorHeading == "### Contact Us Tests"

FallbackHeading == "## UI Test Data"

TopLevelMark == "\n## "

\* patch that forgets the rest of the document in the anchor branch
patchDropsTail(content, testCaseEntry) ==
    LET contactUsTestIndex == indexOf(content, AnchorHeading, 0)
    IN  IF contactUsTestIndex # -1
        THEN LET nextSectionIndex ==
                     indexOf(content, TopLevelMark, contactUsTestIndex + 1)
             IN  IF nextSectionIndex # -1
                 THEN slice(content, 0, nextSectionIndex) \o testCaseEntry
                      \o "\n"
                 ELSE content \o testCaseEntry
        ELSE LET uiTestDataIndex == indexOf(content, FallbackHeading, 0)
             IN  IF uiTestDataIndex # -1
                 THEN slice(content, 0, uiTestDataIndex) \o testCaseEntry
                      \o "\n\n"
                      \o slice(content, uiTestDataIndex, Len(content))
                 ELSE content \o testCaseEntry

\* patch with the fallback heading tried before the anchor heading
patchFallbackFirst(content, testCaseEntry) ==
    LET uiTestDataIndex == indexOf(content, FallbackHeading, 0)
    IN  IF uiTestDataIndex # -1
        THEN slice(content, 0, uiTestDataIndex) \o testCaseEntry
             \o "\n\n"
             \o slice(content, uiTestDataIndex, Len(content))
        ELSE LET contactUsTestIndex == indexOf(content, AnchorHeading, 0)
                 nextSectionIndex ==
                     indexOf(content, TopLevelMark, contactUsTestIndex + 1)
             IN  IF contactUsTestIndex # -1 /\ nextSectionIndex # -1
                 THEN slice(content, 0, nextSectionIndex) \o testCaseEntry
                      \o "\n"
                      \o slice(content, nextSectionIndex, Len(content))
                 ELSE content \o testCaseEntry

\* patch with the fallback heading searched after its first character
patchSecondFallback(content, testCaseEntry) ==
    LET contactUsTestIndex == indexOf(content, AnchorHeading, 0)
    IN  IF contactUsTestIndex # -1
        THEN LET nextSectionIndex ==
                     indexOf(content, TopLevelMark, contactUsTestIndex + 1)
             IN  IF nextSectionIndex # -1
                 THEN slice(content, 0, nextSectionIndex) \o testCaseEntry
                      \o "\n"
                      \o slice(content, nextSectionIndex, Len(content))
                 ELSE content \o testCaseEntry
        ELSE LET uiTestDataIndex == indexOf(content, FallbackHeading, 2)
             IN  IF uiTestDataIndex # -1
                 THEN slice(content, 0, uiTestDataIndex) \o testCaseEntry
                      \o "\n\n"
                      \o slice(content, uiTestDataIndex, Len(content))
                 ELSE content \o testCaseEntry

\* patch that leaves a document alone that already holds the entry
patchIdempotent(content, testCaseEntry) ==
    LET contactUsTestIndex == indexOf(content, AnchorHeading, 0)
    IN  IF includes(content, testCaseEntry) THEN content
        ELSE IF contactUsTestIndex # -1
        THEN LET nextSectionIndex ==
                     indexOf(content, TopLevelMark, contactUsTestIndex + 1)
             IN  IF nextSectionIndex # -1
                 THEN slice(content, 0, nextSectionIndex) \o testCaseEntry
                      \o "\n"
                      \o slice(content, nextSectionIndex, Len(content))
                 ELSE content \o testCaseEntry
        ELSE LET uiTestDataIndex == indexOf(content, FallbackHeading, 0)
             IN  IF uiTestDataIndex # -1
                 THEN slice(content, 0, uiTestDataIndex) \o testCaseEntry
                      \o "\n\n"
                      \o slice(content, uiTestDataIndex, Len(content))
                 ELSE content \o testCaseEntry

\* patch that puts the entry right after the anchor heading
patchAfterAnchor(content, testCaseEntry) ==
    LET contactUsTestIndex == indexOf(content, AnchorHeading, 0)
    IN  IF contactUsTestIndex # -1
        THEN LET nextSectionIndex == contactUsTestIndex + Len(AnchorHeading)
             IN  slice(content, 0, nextSectionIndex) \o testCaseEntry
                 \o "\n"
                 \o slice(content, nextSectionIndex, Len(content))
        ELSE LET uiTestDataIndex == indexOf(content, FallbackHeading, 0)
             IN  IF uiTestDataIndex # -1
                 THEN slice(content, 0, uiTestDataIndex) \o testCaseEntry
                      \o "\n\n"
                      \o slice(content, uiTestDataIndex, Len(content))
                 ELSE content \o testCaseEntry

patch(content, testCaseEntry) ==
    LET contactUsTestIndex == indexOf(content, AnchorHeading, 0)
    IN  IF contactUsTestIndex # -1
        THEN LET nextSectionIndex ==
                     indexOf(content, TopLevelMark, contactUsTestIndex + 1)
             IN  IF nextSectionIndex # -1
                 THEN slice(content, 0, nextSectionIndex) \o testCaseEntry
                      \o "\n"
                      \o slice(content, nextSectionIndex, Len(content))
                 ELSE content \o testCaseEntry
        ELSE LET uiTestDataIndex == indexOf(content, FallbackHeading, 0)
             IN  IF uiTestDataIndex # -1
                 THEN slice(content, 0, uiTestDataIndex) \o testCaseEntry
                      \o "\n\n"
                      \o slice(content, uiTestDataIndex, Len(content))
                 ELSE content \o testCaseEntry

(***************************************************************************)
(* Bounds and inputs.                                                      *)
(***************************************************************************)
MaxStmts == 2

MaxDocLines == 2

MaxRequests == 2

MaxCalls == 2

\* statements a recorded script is made of
Statements ==
    { "page.locator('#submitBtn').click();",
      "page.locator(\"#go\").click();",
      "page.click('#go');",
      "page.getByRole('button', { name: 'Save' }).click();",
      "page.getByRole('button', {name: \"Cancel\"});",
      "page.getByText('Sign in').click();",
      "page.getByLabel('user input');",
      "page.getByPlaceholder('Email').fill('a@b.com');",
      "page.fill('#name', 'Bob');",
      "page.locator('#q').fill();",
      "page.locator('#q').click();",
      "page.locator('#q').click(); page.fill('#name', 'Bob');",
      "page.type('#icon-link', 'x');",
      "page.locator('a[href]');",
      "page.locator('input.btn');",
      "page.locator('#btn-icon');",
      "page.goto('/home');" }

RECURSIVE JoinLines(_)
JoinLines(q) ==
    IF q = << >> THEN ""
    ELSE IF Len(q) = 1 THEN q[1]
    ELSE q[1] \o "\n" \o JoinLines(Tail(q))

SourceTexts ==
    { JoinLines(q) : q \in UNION { [1..n -> Statements] : n \in 0..MaxStmts } }

\* lines a context document is made of
DocLines ==
    { "# Ctx", AnchorHeading, FallbackHeading, "## API", "### UI Test Data" }

Documents ==
    { JoinLines(q) : q \in UNION { [1..n -> DocLines] : n \in 0..MaxDocLines } }

\* a decoded value without any property
NoData == [f \in {} |-> ""]

\* request bodies as sent on the wire, in chunks, and what JSON.parse makes
\* of the whole text (ok = FALSE: JSON.parse throws a SyntaxError); kind is
\* the kind of value decoded: an object, null, or a number, which has none
\* of the properties the handler reads
Wire ==
    << [chunks |-> << "{name:Login,", "code:click}" >>, ok |-> TRUE,
        kind |-> "object",
        data |-> [name |-> "Login", description |-> "logs in",
                  steps |-> "open; click", testCaseType |-> "API",
                  browser |-> "chromium", url |-> "/login",
                  timestamp |-> "2024-01-15T10:30:00",
                  playwrightCode |->
                      "page.locator('#submitBtn').click();\npage.fill('#name', 'Bob');"]],
       [chunks |-> << "{name:Home,", "code:goto}" >>, ok |-> TRUE,
        kind |-> "object",
        data |-> [name |-> "Home", description |-> "opens",
                  steps |-> "open", browser |-> "firefox", url |-> "/",
                  timestamp |-> "yesterday",
                  playwrightCode |-> "page.goto('/home');"]],
       [chunks |-> << "{name:Lo" >>, ok |-> FALSE, kind |-> "none",
        data |-> NoData],
       [chunks |-> << "null" >>, ok |-> TRUE, kind |-> "null",
        data |-> NoData],
       [chunks |-> << "42" >>, ok |-> TRUE, kind |-> "number",
        data |-> NoData] >>

\* every body of Wire
FaultPayloads == 1..Len(Wire)

\* the bodies that are an object or do not decode
Payloads == {p \in FaultPayloads : Wire[p].kind \in {"object", "none"}}

RECURSIVE Concat(_)
Concat(q) == IF q = << >> THEN "" ELSE Head(q) \o Concat(Tail(q))

\* JSON.parse(body) on the texts of Wire
JSONparse(body) ==
    LET hits == {p \in FaultPayloads :
                     Concat(Wire[p].chunks) = body /\ Wire[p].ok}
    IN  IF hits = {} THEN [ok |-> FALSE, kind |-> "none", data |-> NoData]
        ELSE [ok |-> TRUE, kind |-> Wire[CHOOSE p \in hits : TRUE].kind,
              data |-> Wire[CHOOSE p \in hits : TRUE].data]

(***************************************************************************)
(* State.                                                                  *)
(***************************************************************************)
VARIABLES
    fileExists,   \* fs.existsSync(PROJECT_CONTEXT.md)
    content,      \* the text of PROJECT_CONTEXT.md on disk
    reqs,         \* save-testcase requests: phase, payload, chunks received, body
    resp,         \* the response sent for each request
    h,            \* locals of the handler that ran last
    code,         \* argument of the extractElementsFromCode call under scan
    ex,           \* its locals: pattern index, lastIndex, seenSelectors, ...
    xpc,          \* "scan" while the patterns loop runs, "returned" after
    testName,     \* second argument of that call
    calls,        \* the calls that have returned: arguments and result
    saved,        \* the entries written to PROJECT_CONTEXT.md, oldest first
    loop          \* the event loop: the request whose callback holds the
                  \* call stack (0: none) and where each 'end' callback is

vars ==
    << fileExists, content, reqs, resp, h, code, ex, xpc, testName, calls,
       saved, loop >>

serverVars == << fileExists, content, reqs, resp, h, saved, loop >>

extractVars == << code, ex, xpc, testName, calls >>

Requests == 1..MaxRequests

\* type is the kind of body sent: "none" (res.end() without data), "json",
\* "html" or "text"
NoResponse ==
    [sent |-> FALSE, status |-> 0, type |-> "none", success |-> FALSE,
     message |-> ""]

IdleRequest ==
    [phase |-> "idle", payload |-> 0, received |-> 0, body |-> "",
     io |-> << >>]

\* an 'end' callback that has not started: where it is, and its variable
\* content
IdleFrame == [pc |-> "idle", content |-> ""]

IdleLoop == [running |-> 0, frames |-> [r \in Requests |-> IdleFrame]]

NoHandler ==
    [req |-> 0, outcome |-> "none", content0 |-> "", testCaseEntry |-> "",
     elements |-> << >>, testCaseData |-> NoData]

(***************************************************************************)
(* The server: POST /save-testcase.                                        *)
(***************************************************************************)
Init ==
    /\ fileExists \in BOOLEAN
    /\ content \in (IF fileExists THEN Documents ELSE {""})
    /\ reqs = [r \in Requests |-> IdleRequest]
    /\ resp = [r \in Requests |-> NoResponse]
    /\ h = NoHandler
    /\ code = ""
    /\ ex = ExtractStart
    /\ xpc = "idle"
    /\ testName = ""
    /\ calls = << >>
    /\ saved = << >>
    /\ loop = IdleLoop

\* a POST /save-testcase arrives: body = '' and the listeners are registered
Connect(r, p) ==
    /\ reqs[r].phase = "idle"
    /\ r > 1 => reqs[r - 1].phase # "idle"
    /\ reqs' = [reqs EXCEPT ![r] =
                   [phase |-> "receiving", payload |-> p,
                    received |-> 0, body |-> "", io |-> << >>]]
    /\ UNCHANGED << fileExists, content, resp, h, saved, loop, extractVars >>

\* req.on('data'): body += chunk.toString()
Data(r) ==
    /\ reqs[r].phase = "receiving"
    /\ reqs[r].received < Len(Wire[reqs[r].payload].chunks)
    /\ reqs' = [reqs EXCEPT
                   ![r].received = @ + 1,
                   ![r].body = @ \o Wire[reqs[r].payload].chunks[reqs[r].received + 1]]
    /\ UNCHANGED << fileExists, content, resp, h, saved, loop, extractVars >>

\* 'end' is emitted once every chunk has been delivered
Ended(r) ==
    /\ reqs[r].phase = "receiving"
    /\ reqs[r].received = Len(Wire[reqs[r].payload].chunks)

\* res.end sent before the file operations of the handler
RespondFirst(r, success, message, ops) ==
    /\ resp' = [resp EXCEPT ![r] =
                   [sent |-> TRUE, status |-> 200, type |-> "json",
                    success |-> success, message |-> message]]
    /\ reqs' = [reqs EXCEPT ![r].phase = "done",
                            ![r].io = << "respond" >> \o ops]

\* res.writeHead(200) and res.end(JSON.stringify({success, message})), after
\* the file operations ops the handler made on its way there
Respond(r, success, message, ops) ==
    /\ resp' = [resp EXCEPT ![r] =
                   [sent |-> TRUE, status |-> 200, type |-> "json",
                    success |-> success, message |-> message]]
    /\ reqs' = [reqs EXCEPT ![r].phase = "done",
                            ![r].io = ops \o << "respond" >>]

\* req.on('end'), JSON.parse throws: the catch block answers
SaveEndParseError(r) ==
    /\ Ended(r)
    /\ ~JSONparse(reqs[r].body).ok
    /\ Respond(r, FALSE, "Failed to save test case: Unexpected token", << >>)
    /\ h' = [NoHandler EXCEPT !.req = r, !.outcome = "error"]
    /\ UNCHANGED << fileExists, content, saved, loop, extractVars >>

\* req.on('end'), the body is null: testCaseData.name throws a TypeError
\* before the document is looked for, the catch block answers
SaveEndTypeError(r) ==
    /\ Ended(r)
    /\ JSONparse(reqs[r].body).ok
    /\ JSONparse(reqs[r].body).kind = "null"
    /\ Respond(r, FALSE,
           "Failed to save test case: Cannot read properties of null",
           << >>)
    /\ h' = [NoHandler EXCEPT !.req = r, !.outcome = "error"]
    /\ UNCHANGED << fileExists, content, saved, loop, extractVars >>

\* the not-found branch creating an empty document before it answers
SaveEndNotFoundCreates(r) ==
    /\ Ended(r)
    /\ JSONparse(reqs[r].body).ok
    /\ JSONparse(reqs[r].body).kind # "null"
    /\ ~fileExists
    /\ fileExists' = TRUE
    /\ Respond(r, FALSE, "PROJECT_CONTEXT.md file not found", << "exists" >>)
    /\ h' = [NoHandler EXCEPT !.req = r, !.outcome = "notfound"]
    /\ UNCHANGED << content, saved, loop, extractVars >>

\* req.on('end'), the document does not exist
SaveEndNotFound(r) ==
    /\ Ended(r)
    /\ JSONparse(reqs[r].body).ok
    /\ JSONparse(reqs[r].body).kind # "null"
    /\ ~fileExists
    /\ Respond(r, FALSE, "PROJECT_CONTEXT.md file not found", << "exists" >>)
    /\ h' = [NoHandler EXCEPT !.req = r, !.outcome = "notfound"]
    /\ UNCHANGED << fileExists, content, saved, loop, extractVars >>

\* req.on('end'), the document exists but readFileSync throws (the file
\* cannot be opened): the catch block answers
SaveEndReadError(r) ==
    /\ Ended(r)
    /\ JSONparse(reqs[r].body).ok
    /\ JSONparse(reqs[r].body).kind # "null"
    /\ fileExists
    /\ Respond(r, FALSE, "Failed to save test case: EACCES: permission denied",
           << "exists", "read" >>)
    /\ h' = [NoHandler EXCEPT !.req = r, !.outcome = "error"]
    /\ UNCHANGED << fileExists, content, saved, loop, extractVars >>

\* the catch block answering success = true after a failed write
SaveEndWriteErrorReportsSuccess(r) ==
    /\ Ended(r)
    /\ JSONparse(reqs[r].body).ok
    /\ JSONparse(reqs[r].body).kind # "null"
    /\ fileExists
    /\ Respond(r, TRUE, "Failed to save test case: ENOSPC: no space left",
           << "exists", "read", "writeFailed" >>)
    /\ h' = [NoHandler EXCEPT !.req = r, !.outcome = "error"]
    /\ UNCHANGED << fileExists, content, saved, loop, extractVars >>

\* req.on('end'), the document is read and the entry placed, but
\* writeFileSync throws and leaves the file as it was: the catch block answers
SaveEndWriteError(r) ==
    /\ Ended(r)
    /\ JSONparse(reqs[r].body).ok
    /\ JSONparse(reqs[r].body).kind # "null"
    /\ fileExists
    /\ Respond(r, FALSE, "Failed to save test case: ENOSPC: no space left",
           << "exists", "read", "writeFailed" >>)
    /\ h' = [NoHandler EXCEPT !.req = r, !.outcome = "error"]
    /\ UNCHANGED << fileExists, content, saved, loop, extractVars >>

\* req.on('end'), the document exists: read, extract, render, place, write
SaveEndWrite(r) ==
    /\ Ended(r)
    /\ JSONparse(reqs[r].body).ok
    /\ JSONparse(reqs[r].body).kind # "null"
    /\ fileExists
    /\ \E testCaseData \in {JSONparse(reqs[r].body).data} :
       \E elements \in
              {extractElementsFromCode(Field(testCaseData, "playwrightCode"))} :
       \E testCaseEntry \in {testCaseEntryOf(testCaseData, elements)} :
           /\ content' = patch(content, testCaseEntry)
           /\ saved' = Append(saved, testCaseEntry)
           /\ h' = [req |-> r, outcome |-> "saved", content0 |-> content,
                    testCaseEntry |-> testCaseEntry, elements |-> elements,
                    testCaseData |-> testCaseData]
           /\ Respond(r, TRUE,
                  "Test case saved successfully with "
                  \o ToString(Len(elements)) \o " page elements",
                  << "exists", "read", "write" >>)
    /\ UNCHANGED << fileExists, loop, extractVars >>

Next ==
    \/ \E r \in Requests, p \in Payloads : Connect(r, p)
    \/ \E r \in Requests : Data(r)
    \/ \E r \in Requests : SaveEndParseError(r)
    \/ \E r \in Requests : SaveEndNotFound(r)
    \/ \E r \in Requests : SaveEndWrite(r)

Spec == Init /\ [][Next]_vars

(***************************************************************************)
(* The server with every kind of body and with reads that fail, on an      *)
(* empty or one-line document.                                             *)
(***************************************************************************)
FaultDocuments == {""} \cup DocLines

InitFaults ==
    /\ fileExists \in BOOLEAN
    /\ content \in (IF fileExists THEN FaultDocuments ELSE {""})
    /\ reqs = [r \in Requests |-> IdleRequest]
    /\ resp = [r \in Requests |-> NoResponse]
    /\ h = NoHandler
    /\ code = ""
    /\ ex = ExtractStart
    /\ xpc = "idle"
    /\ testName = ""
    /\ calls = << >>
    /\ saved = << >>
    /\ loop = IdleLoop

NextFaults ==
    \/ \E r \in Requests, p \in FaultPayloads : Connect(r, p)
    \/ \E r \in Requests : Data(r)
    \/ \E r \in Requests : SaveEndParseError(r)
    \/ \E r \in Requests : SaveEndTypeError(r)
    \/ \E r \in Requests : SaveEndNotFound(r)
    \/ \E r \in Requests : SaveEndReadError(r)
    \/ \E r \in Requests : SaveEndWriteError(r)
    \/ \E r \in Requests : SaveEndWrite(r)

SpecFaults == InitFaults /\ [][NextFaults]_vars

\* the 'end' callback of request r, whichever way it goes
SaveEnd(r) ==
    \/ SaveEndParseError(r)
    \/ SaveEndTypeError(r)
    \/ SaveEndNotFound(r)
    \/ SaveEndReadError(r)
    \/ SaveEndWriteError(r)
    \/ SaveEndWrite(r)

\* the requests that are followed to their answer start on an empty document
\* or on one that holds the anchor heading
InitFaultsFair == InitFaults /\ content \in {"", AnchorHeading}

\* the event loop runs the 'end' callback of every request whose body has
\* been received
SpecFaultsFair ==
    /\ InitFaultsFair
    /\ [][NextFaults]_vars
    /\ \A r \in Requests : WF_vars(SaveEnd(r))

(***************************************************************************)
(* The 'end' callback of save-testcase statement by statement, under the   *)
(* event loop: a callback is started only when no callback holds the call  *)
(* stack, and it holds the stack until it returns or awaits.               *)
(***************************************************************************)
\* the bodies that decode to an object
ObjectPayloads == {p \in FaultPayloads : Wire[p].kind = "object"}

InitSteps ==
    /\ fileExists = TRUE
    /\ content \in FaultDocuments
    /\ reqs = [r \in Requests |-> IdleRequest]
    /\ resp = [r \in Requests |-> NoResponse]
    /\ h = NoHandler
    /\ code = ""
    /\ ex = ExtractStart
    /\ xpc = "idle"
    /\ testName = ""
    /\ calls = << >>
    /\ saved = << >>
    /\ loop = IdleLoop

\* the connection callback of a new request runs
StepConnect(r, p) ==
    /\ loop.running = 0
    /\ Connect(r, p)

\* a 'data' callback runs
StepData(r) ==
    /\ loop.running = 0
    /\ Data(r)

\* a callback that awaits the read: the stack is free after readFileSync
AfterReadAwaits(r) == 0

\* who holds the stack after content = fs.readFileSync(...): the callback
\* itself, there is no await in its body
AfterRead(r) == r

\* the 'end' callback starts: JSON.parse, existsSync, readFileSync
StepRead(r) ==
    /\ loop.running = 0
    /\ Ended(r)
    /\ loop.frames[r].pc = "idle"
    /\ JSONparse(reqs[r].body).ok
    /\ fileExists
    /\ loop' = [running |-> AfterRead(r),
                frames |-> [loop.frames EXCEPT
                               ![r] = [pc |-> "write", content |-> content]]]
    /\ UNCHANGED << fileExists, content, reqs, resp, h, saved, extractVars >>

\* the callback goes on: extraction, rendering, placement, writeFileSync
StepWrite(r) ==
    /\ loop.running \in {0, r}
    /\ loop.frames[r].pc = "write"
    /\ \E testCaseData \in {JSONparse(reqs[r].body).data} :
       \E elements \in
              {extractElementsFromCode(Field(testCaseData, "playwrightCode"))} :
       \E testCaseEntry \in {testCaseEntryOf(testCaseData, elements)} :
           /\ content' = patch(loop.frames[r].content, testCaseEntry)
           /\ saved' = Append(saved, testCaseEntry)
           /\ h' = [req |-> r, outcome |-> "saved",
                    content0 |-> loop.frames[r].content,
                    testCaseEntry |-> testCaseEntry, elements |-> elements,
                    testCaseData |-> testCaseData]
    /\ loop' = [running |-> r,
                frames |-> [loop.frames EXCEPT ![r].pc = "respond"]]
    /\ UNCHANGED << fileExists, reqs, resp, extractVars >>

\* res.writeHead, res.end; the callback returns
StepRespond(r) ==
    /\ loop.running = r
    /\ loop.frames[r].pc = "respond"
    /\ Respond(r, TRUE,
           "Test case saved successfully with "
           \o ToString(Len(h.elements)) \o " page elements",
           << "exists", "read", "write" >>)
    /\ loop' = [running |-> 0,
                frames |-> [loop.frames EXCEPT ![r].pc = "done"]]
    /\ UNCHANGED << fileExists, content, h, saved, extractVars >>

NextSteps ==
    \/ \E r \in Requests, p \in ObjectPayloads : StepConnect(r, p)
    \/ \E r \in Requests : StepData(r)
    \/ \E r \in Requests : StepRead(r)
    \/ \E r \in Requests : StepWrite(r)
    \/ \E r \in Requests : StepRespond(r)

SpecSteps == InitSteps /\ [][NextSteps]_vars

(***************************************************************************)
(* extractElementsFromCode on its own: one call, scanned step by step.     *)
(***************************************************************************)
InitExtract ==
    /\ fileExists = FALSE
    /\ content = ""
    /\ reqs = [r \in Requests |-> IdleRequest]
    /\ resp = [r \in Requests |-> NoResponse]
    /\ h = NoHandler
    /\ code \in SourceTexts
    /\ ex = ExtractStart
    /\ xpc = "scan"
    /\ testName = ""
    /\ calls = << >>
    /\ saved = << >>
    /\ loop = IdleLoop

Scanning == xpc = "scan" /\ ~ExtractDone(ex)

NextMatch == exec(patterns[ex.pidx], code, ex.lastIndex)

\* pattern.exec returns a match whose selector has not been seen: push
ScanAccept ==
    /\ Scanning
    /\ NextMatch.found
    /\ selectorOf(NextMatch) \notin ex.seenSelectors
    /\ ex' = ExtractStep(code, ex)
    /\ UNCHANGED << code, xpc, testName, calls, serverVars >>

\* pattern.exec returns a match whose selector was seen: continue
ScanSkip ==
    /\ Scanning
    /\ NextMatch.found
    /\ selectorOf(NextMatch) \in ex.seenSelectors
    /\ ex' = ExtractStep(code, ex)
    /\ UNCHANGED << code, xpc, testName, calls, serverVars >>

\* pattern.exec returns null: the while loop ends, forEach takes the next pattern
ScanNextPattern ==
    /\ Scanning
    /\ ~NextMatch.found
    /\ ex' = ExtractStep(code, ex)
    /\ UNCHANGED << code, xpc, testName, calls, serverVars >>

\* return elements
ExtractReturn ==
    /\ xpc = "scan"
    /\ ExtractDone(ex)
    /\ xpc' = "returned"
    /\ calls' = Append(calls, [code |-> code, testName |-> testName,
                               result |-> ex.elements])
    /\ UNCHANGED << code, ex, testName, serverVars >>

NextExtract == ScanAccept \/ ScanSkip \/ ScanNextPattern \/ ExtractReturn

SpecExtract == InitExtract /\ [][NextExtract]_vars

\* statements for the calls that are followed to their end
FairStatements ==
    { "page.locator(\"#go\").click();",
      "page.click('#go');",
      "page.getByRole('button', { name: 'Save' }).click();",
      "page.locator('#q').click(); page.fill('#name', 'Bob');",
      "page.goto('/home');" }

FairTexts ==
    { JoinLines(q) :
        q \in UNION { [1..n -> FairStatements] : n \in 0..MaxStmts } }

InitExtractFair == InitExtract /\ code \in FairTexts

\* the call runs on: the synchronous loop takes its next step
SpecExtractFair ==
    InitExtractFair /\ [][NextExtract]_vars /\ WF_vars(NextExtract)

(***************************************************************************)
(* The server with all its routes (createServer callback).                 *)
(***************************************************************************)
Methods == {"OPTIONS", "POST", "GET"}

\* the endpoints that run a command with exec, and the command each runs
LaunchCommand ==
    [u \in {"/open-html-report", "/open-allure-report", "/open-logs"} |->
        IF u = "/open-html-report" THEN "npx playwright show-report"
        ELSE IF u = "/open-allure-report" THEN "npx allure generate"
        ELSE "explorer test-results"]

ReportUrls == DOMAIN LaunchCommand

DashboardUrls == {"/", "/index.html"}

DocumentUrl == "/PROJECT_CONTEXT.md"

Urls ==
    {"/start-recording", "/save-testcase", DocumentUrl, "/nope"}
        \cup ReportUrls \cup DashboardUrls

\* bodies sent to /start-recording
RecordingWire ==
    << [chunks |-> << "{browser:chromium,", "url:/login}" >>, ok |-> TRUE,
        kind |-> "object",
        data |-> [browser |-> "chromium", url |-> "/login"]],
       [chunks |-> << "{browser:firefox}" >>, ok |-> TRUE, kind |-> "object",
        data |-> [browser |-> "firefox"]],
       [chunks |-> << "{browser:,url:/x}" >>, ok |-> TRUE, kind |-> "object",
        data |-> [browser |-> "", url |-> "/x"]],
       [chunks |-> << "{browser:ch" >>, ok |-> FALSE, kind |-> "none",
        data |-> NoData],
       [chunks |-> << "null" >>, ok |-> TRUE, kind |-> "null",
        data |-> NoData] >>

\* every body a request of the routed server carries
RouteWire == Wire \o RecordingWire

RecordingPayloads == (Len(Wire) + 1)..Len(RouteWire)

\* the save-testcase bodies of the routed server: an object and a text that
\* does not decode
RouteSavePayloads == {p \in Payloads : p = 1 \/ ~Wire[p].ok}

\* JSON.parse(body) on the texts of RecordingWire
JSONparseRecording(body) ==
    LET hits == {p \in 1..Len(RecordingWire) :
                     /\ Concat(RecordingWire[p].chunks) = body
                     /\ RecordingWire[p].ok}
    IN  IF hits = {} THEN [ok |-> FALSE, kind |-> "none", data |-> NoData]
        ELSE [ok |-> TRUE, kind |-> RecordingWire[CHOOSE p \in hits : TRUE].kind,
              data |-> RecordingWire[CHOOSE p \in hits : TRUE].data]

\* !data.f : the property is missing or is the empty text
Falsy(d, f) == IF f \in DOMAIN d THEN d[f] = "" ELSE TRUE

IdleRouted ==
    [phase |-> "idle", method |-> "", url |-> "", payload |-> 0,
     received |-> 0, body |-> "", io |-> << >>]

InitRoutes ==
    /\ fileExists \in BOOLEAN
    /\ content \in (IF fileExists THEN {"", AnchorHeading} ELSE {""})
    /\ reqs = [r \in Requests |-> IdleRouted]
    /\ resp = [r \in Requests |-> NoResponse]
    /\ h = NoHandler
    /\ code = ""
    /\ ex = ExtractStart
    /\ xpc = "idle"
    /\ testName = ""
    /\ calls = << >>
    /\ saved = << >>
    /\ loop = IdleLoop

\* the callback of createServer is called with a new request
Arrives(r) ==
    /\ reqs[r].phase = "idle"
    /\ r > 1 => reqs[r - 1].phase # "idle"

\* res.writeHead(status) and res.end(...) after the operations ops
Reply(r, m, u, status, type, success, message, ops) ==
    /\ resp' = [resp EXCEPT ![r] =
                   [sent |-> TRUE, status |-> status, type |-> type,
                    success |-> success, message |-> message]]
    /\ reqs' = [reqs EXCEPT ![r].phase = "done", ![r].method = m,
                            ![r].url = u, ![r].io = ops \o << "respond" >>]

\* an OPTIONS request going on to the routes as any other method does
OptionsRouted(r, u) ==
    /\ Arrives(r)
    /\ Reply(r, "OPTIONS", u, 404, "json", FALSE, "Not found", << >>)
    /\ UNCHANGED << fileExists, content, h, saved, loop, extractVars >>

\* req.method === 'OPTIONS': writeHead(200), end(), return
Options(r, u) ==
    /\ Arrives(r)
    /\ Reply(r, "OPTIONS", u, 200, "none", FALSE, "", << >>)
    /\ UNCHANGED << fileExists, content, h, saved, loop, extractVars >>

\* POST /start-recording or POST /save-testcase: body = '' and the 'data'
\* and 'end' listeners are registered
RouteConnect(r, u, p) ==
    /\ Arrives(r)
    /\ \/ u = "/start-recording" /\ p \in RecordingPayloads
       \/ u = "/save-testcase" /\ p \in RouteSavePayloads
    /\ reqs' = [reqs EXCEPT ![r] =
                   [phase |-> "receiving", method |-> "POST", url |-> u,
                    payload |-> p, received |-> 0, body |-> "",
                    io |-> << >>]]
    /\ UNCHANGED << fileExists, content, resp, h, saved, loop, extractVars >>

\* req.on('data'): body += chunk.toString()
RouteData(r) ==
    /\ reqs[r].phase = "receiving"
    /\ reqs[r].received < Len(RouteWire[reqs[r].payload].chunks)
    /\ reqs' = [reqs EXCEPT
                   ![r].received = @ + 1,
                   ![r].body = @ \o RouteWire[reqs[r].payload].chunks[reqs[r].received + 1]]
    /\ UNCHANGED << fileExists, content, resp, h, saved, loop, extractVars >>

\* 'end' of a start-recording request is emitted
RecordingEnded(r) ==
    /\ reqs[r].phase = "receiving"
    /\ reqs[r].url = "/start-recording"
    /\ reqs[r].received = Len(RouteWire[reqs[r].payload].chunks)

\* JSON.parse throws, or the body is null and the destructuring throws: the
\* catch block answers 500
RecordingEndError(r) ==
    /\ RecordingEnded(r)
    /\ \E d \in {JSONparseRecording(reqs[r].body)} :
          /\ ~d.ok \/ d.kind = "null"
          /\ Reply(r, "POST", "/start-recording", 500, "json", FALSE,
                 IF d.ok THEN "Cannot destructure property 'browser'"
                 ELSE "Unexpected token", << >>)
    /\ UNCHANGED << fileExists, content, h, saved, loop, extractVars >>

\* !browser || !url: 400, return
RecordingEndMissing(r) ==
    /\ RecordingEnded(r)
    /\ \E d \in {JSONparseRecording(reqs[r].body)} :
          /\ d.ok /\ d.kind # "null"
          /\ Falsy(d.data, "browser") \/ Falsy(d.data, "url")
          /\ Reply(r, "POST", "/start-recording", 400, "json", FALSE,
                 "Browser and URL are required", << >>)
    /\ UNCHANGED << fileExists, content, h, saved, loop, extractVars >>

\* exec(`npx playwright codegen --browser=${browser} "${url}"`), then 200
RecordingEndLaunch(r) ==
    /\ RecordingEnded(r)
    /\ \E d \in {JSONparseRecording(reqs[r].body)} :
          /\ d.ok /\ d.kind # "null"
          /\ ~Falsy(d.data, "browser") /\ ~Falsy(d.data, "url")
          /\ Reply(r, "POST", "/start-recording", 200, "json", TRUE,
                 "Launching " \o d.data.browser \o " with " \o d.data.url,
                 << "exec npx playwright codegen" >>)
    /\ UNCHANGED << fileExists, content, h, saved, loop, extractVars >>

\* POST /open-html-report, /open-allure-report, /open-logs when the folder
\* the command needs does not exist: 200 with success = false
OpenMissing(r, u) ==
    /\ Arrives(r)
    /\ u \in ReportUrls
    /\ Reply(r, "POST", u, 200, "json", FALSE, "Please run tests first",
           << >>)
    /\ UNCHANGED << fileExists, content, h, saved, loop, extractVars >>

\* the same endpoints when the folder exists: exec(command), 200
OpenLaunch(r, u) ==
    /\ Arrives(r)
    /\ u \in ReportUrls
    /\ Reply(r, "POST", u, 200, "json", TRUE, "Opening",
           << "exec " \o LaunchCommand[u] >>)
    /\ UNCHANGED << fileExists, content, h, saved, loop, extractVars >>

\* the 'end' callback of a save-testcase request
RouteSaveEnd(r) ==
    /\ reqs[r].url = "/save-testcase"
    /\ \/ SaveEndParseError(r)
       \/ SaveEndNotFound(r)
       \/ SaveEndWrite(r)

\* '/', '/index.html' or '/PROJECT_CONTEXT.md' with any method but OPTIONS:
\* fs.readFile is started
ServeFile(r, m, u) ==
    /\ Arrives(r)
    /\ m # "OPTIONS"
    /\ u \in DashboardUrls \cup {DocumentUrl}
    /\ reqs' = [reqs EXCEPT ![r].phase = "reading", ![r].method = m,
                            ![r].url = u]
    /\ UNCHANGED << fileExists, content, resp, h, saved, loop, extractVars >>

\* the readFile callback of the dashboard: 500 on an error, else the page
DashboardRead(r, err) ==
    /\ reqs[r].phase = "reading"
    /\ reqs[r].url \in DashboardUrls
    /\ Reply(r, reqs[r].method, reqs[r].url, IF err THEN 500 ELSE 200, "html",
           FALSE,
           IF err THEN "<h1>Error loading dashboard</h1>" ELSE "dashboard.html",
           << >>)
    /\ UNCHANGED << fileExists, content, h, saved, loop, extractVars >>

\* the readFile callback of the document: 404 as text when it cannot be
\* read, else its text
DocumentRead(r) ==
    /\ reqs[r].phase = "reading"
    /\ reqs[r].url = DocumentUrl
    /\ Reply(r, reqs[r].method, reqs[r].url, IF fileExists THEN 200 ELSE 404,
           "text", FALSE,
           IF fileExists THEN content ELSE "PROJECT_CONTEXT.md not found",
           << "read" >>)
    /\ UNCHANGED << fileExists, content, h, saved, loop, extractVars >>

\* the final else: 404 {success: false, message: 'Not found'}
RouteNotFound(r, m, u) ==
    /\ Arrives(r)
    /\ m # "OPTIONS"
    /\ ~(m = "POST" /\ u \in {"/start-recording", "/save-testcase"} \cup ReportUrls)
    /\ u \notin DashboardUrls \cup {DocumentUrl}
    /\ Reply(r, m, u, 404, "json", FALSE, "Not found", << >>)
    /\ UNCHANGED << fileExists, content, h, saved, loop, extractVars >>

NextRoutes ==
    \/ \E r \in Requests, u \in Urls : Options(r, u)
    \/ \E r \in Requests, u \in Urls, p \in 1..Len(RouteWire) :
           RouteConnect(r, u, p)
    \/ \E r \in Requests : RouteData(r)
    \/ \E r \in Requests : RecordingEndError(r)
    \/ \E r \in Requests : RecordingEndMissing(r)
    \/ \E r \in Requests : RecordingEndLaunch(r)
    \/ \E r \in Requests, u \in Urls : OpenMissing(r, u)
    \/ \E r \in Requests, u \in Urls : OpenLaunch(r, u)
    \/ \E r \in Requests : RouteSaveEnd(r)
    \/ \E r \in Requests, m \in Methods, u \in Urls : ServeFile(r, m, u)
    \/ \E r \in Requests, err \in BOOLEAN : DashboardRead(r, err)
    \/ \E r \in Requests : DocumentRead(r)
    \/ \E r \in Requests, m \in Methods, u \in Urls : RouteNotFound(r, m, u)

SpecRoutes == InitRoutes /\ [][NextRoutes]_vars

(***************************************************************************)
(* extractElementsFromCode called several times, one call after another.   *)
(***************************************************************************)
CallTexts ==
    { "",
      "page.goto('/home');",
      "page.locator('#submitBtn').click();",
      "page.locator('#go').click();",
      "page.locator(\"#go\").click();",
      "page.locator('#q').fill();\npage.locator('#q').click(); page.fill('#name', 'Bob');" }

TestNames == {"Login", "Home"}

\* a call that starts with the counter the call before it ended with
ExtractCallKeepsCounter(prev) == [ExtractStart EXCEPT !.counter = prev.counter]

\* the locals of a call at its entry, prev being the locals the call before
\* it ended with: elements, seenSelectors, the pattern objects (with their
\* lastIndex) and counter are all created inside the function body
ExtractCall(prev) == ExtractStart

InitCalls ==
    /\ fileExists = FALSE
    /\ content = ""
    /\ reqs = [r \in Requests |-> IdleRequest]
    /\ resp = [r \in Requests |-> NoResponse]
    /\ h = NoHandler
    /\ code = ""
    /\ ex = ExtractStart
    /\ xpc = "idle"
    /\ testName = ""
    /\ calls = << >>
    /\ saved = << >>
    /\ loop = IdleLoop

\* extractElementsFromCode(c, t) is called
Call(c, t) ==
    /\ xpc \in {"idle", "returned"}
    /\ Len(calls) < MaxCalls
    /\ code' = c
    /\ testName' = t
    /\ ex' = ExtractCall(ex)
    /\ xpc' = "scan"
    /\ UNCHANGED << calls, serverVars >>

NextCalls ==
    \/ \E c \in CallTexts, t \in TestNames : Call(c, t)
    \/ ScanAccept
    \/ ScanSkip
    \/ ScanNextPattern
    \/ ExtractReturn

SpecCalls == InitCalls /\ [][NextCalls]_vars

(***************************************************************************)
(* Rendering on its own: one decoded body, its extraction, its entry.      *)
(***************************************************************************)
RenderStatements ==
    { "page.locator('#submitBtn').click();",
      "page.fill('#name', 'Bob');",
      "page.goto('/home');" }

RenderTexts ==
    { JoinLines(q) :
        q \in UNION { [1..n -> RenderStatements] : n \in 0..MaxStmts } }

RecordFields ==
    {"name", "description", "steps", "testCaseType", "browser", "url",
     "timestamp", "playwrightCode"}

\* decoded bodies: every field a string, description or testCaseType
\* possibly left out
RenderRecords ==
    { [f \in D |-> r[f]] :
        r \in [name : {"Login", "Home"},
               description : {"logs in", "run " \o Fence \o "npm test" \o Fence},
               steps : {"open; click"},
               testCaseType : {"", "API"},
               browser : {"chromium"},
               url : {"/login"},
               timestamp : {"2024-01-15T10:30:00", "yesterday"},
               playwrightCode : RenderTexts],
        D \in {RecordFields, RecordFields \ {"testCaseType"},
               RecordFields \ {"description"}} }

InitRender ==
    /\ fileExists = FALSE
    /\ content = ""
    /\ reqs = [r \in Requests |-> IdleRequest]
    /\ resp = [r \in Requests |-> NoResponse]
    /\ \E d \in RenderRecords :
           h = [NoHandler EXCEPT !.outcome = "parsed", !.testCaseData = d]
    /\ code = ""
    /\ ex = ExtractStart
    /\ xpc = "idle"
    /\ testName = ""
    /\ calls = << >>
    /\ saved = << >>
    /\ loop = IdleLoop

\* const elements = extractElementsFromCode(testCaseData.playwrightCode, ...)
RenderExtract ==
    /\ h.outcome = "parsed"
    /\ h' = [h EXCEPT
               !.outcome = "extracted",
               !.elements = extractElementsFromCode(
                                Field(h.testCaseData, "playwrightCode"))]
    /\ UNCHANGED << fileExists, content, reqs, resp, saved, loop, extractVars >>

\* elementsSection, testCaseType and testCaseEntry are built
RenderEntry ==
    /\ h.outcome = "extracted"
    /\ h' = [h EXCEPT
               !.outcome = "rendered",
               !.testCaseEntry = testCaseEntryOf(h.testCaseData, h.elements)]
    /\ UNCHANGED << fileExists, content, reqs, resp, saved, loop, extractVars >>

NextRender == RenderExtract \/ RenderEntry

SpecRender == InitRender /\ [][NextRender]_vars

(***************************************************************************)
(* Properties of the placement (specification Spec).  h holds the locals   *)
(* of the handler that ran last; while h.outcome = "saved", content is the *)
(* document that handler wrote and h.content0 the document it read.        *)
(***************************************************************************)
Occurs(s, pat) == \E i \in 0..Len(s) : StartsAt(s, pat, i)

FirstOccurrence(s, pat, i) ==
    /\ StartsAt(s, pat, i)
    /\ \A j \in 0..(i - 1) : ~StartsAt(s, pat, j)

Saved == h.outcome = "saved"

\* the separators the three branches put after the entry
Trailers == {"", "\n", "\n\n"}

\* C1: every successful save writes the document it read with one block
\* (the rendered entry and the newlines its branch adds) inserted at one
\* position p; the text before p and the text after p are the original's,
\* and the length grows by exactly the length of that block.
C1_InsertionOnly ==
    Saved =>
        \E p \in 0..Len(h.content0) :
            LET n     == Len(content) - Len(h.content0)
                block == slice(content, p, p + n)
            IN  /\ n >= Len(h.testCaseEntry)
                /\ slice(content, 0, p) = slice(h.content0, 0, p)
                /\ slice(content, p + n, Len(content))
                       = slice(h.content0, p, Len(h.content0))
                /\ \E t \in Trailers : block = h.testCaseEntry \o t
                /\ content = slice(h.content0, 0, p) \o block
                                 \o slice(h.content0, p, Len(h.content0))
                /\ Len(content) = Len(h.content0) + Len(block)

\* a save that inserted in the middle of a non-empty document (anchor branch)
C1_Witness ==
    /\ Saved
    /\ Occurs(h.content0, AnchorHeading)
    /\ \E n \in 1..Len(h.content0) :
           /\ StartsAt(h.content0, TopLevelMark, n)
           /\ slice(content, 0, n) = slice(h.content0, 0, n)
           /\ StartsAt(content, h.testCaseEntry, n)

\* C2: with the anchor heading in the document, the block sits immediately
\* before the first "\n## " heading after the first anchor occurrence, or
\* at the document end when there is none, fallback heading present or not.
C2_AnchorPlacement ==
    (Saved /\ Occurs(h.content0, AnchorHeading)) =>
        LET d     == h.content0
            a     == CHOOSE i \in 0..Len(d) : FirstOccurrence(d, AnchorHeading, i)
            heads == {n \in (a + 1)..Len(d) : StartsAt(d, TopLevelMark, n)}
        IN  IF heads = {}
            THEN content = d \o h.testCaseEntry
            ELSE \E n \in heads :
                    /\ \A m \in heads : n <= m
                    /\ content = slice(d, 0, n) \o h.testCaseEntry \o "\n"
                                     \o slice(d, n, Len(d))

\* anchor and fallback both present, a top-level heading after the anchor:
\* the block went before that heading
C2_Witness ==
    /\ Saved
    /\ Occurs(h.content0, AnchorHeading)
    /\ Occurs(h.content0, FallbackHeading)
    /\ \E a \in 0..Len(h.content0) :
           /\ FirstOccurrence(h.content0, AnchorHeading, a)
           /\ \E n \in (a + 1)..Len(h.content0) :
                  /\ StartsAt(h.content0, TopLevelMark, n)
                  /\ StartsAt(content, h.testCaseEntry, n)

\* C3: without the anchor but with the fallback heading, the block sits
\* immediately before the first occurrence of the fallback heading and the
\* document from that heading to its end is unchanged.
C3_FallbackPlacement ==
    (Saved /\ ~Occurs(h.content0, AnchorHeading)
           /\ Occurs(h.content0, FallbackHeading)) =>
        LET d == h.content0
            u == CHOOSE i \in 0..Len(d) : FirstOccurrence(d, FallbackHeading, i)
            e == u + Len(h.testCaseEntry)
            t == SkipSpace(content, e)
        IN  /\ slice(content, 0, u) = slice(d, 0, u)
            /\ StartsAt(content, h.testCaseEntry, u)
            /\ StartsAt(content, FallbackHeading, t)
            /\ slice(content, t, Len(content)) = slice(d, u, Len(d))

\* the fallback branch ran on a document holding the fallback text twice
C3_Witness ==
    /\ Saved
    /\ ~Occurs(h.content0, AnchorHeading)
    /\ \E u, v \in 0..Len(h.content0) :
           /\ u < v
           /\ StartsAt(h.content0, FallbackHeading, u)
           /\ StartsAt(h.content0, FallbackHeading, v)
    /\ content # h.content0

\* C4: with neither heading the block is appended at the document end, and
\* the block begins with two newlines, elements extracted or not.
C4_AppendPlacement ==
    (Saved /\ ~Occurs(h.content0, AnchorHeading)
           /\ ~Occurs(h.content0, FallbackHeading)) =>
        /\ content = h.content0 \o h.testCaseEntry
        /\ StartsAt(h.testCaseEntry, "\n\n", 0)

\* an entry with an elements fragment appended to a non-empty document
\* that has neither heading
C4_Witness ==
    /\ Saved
    /\ ~Occurs(h.content0, AnchorHeading)
    /\ ~Occurs(h.content0, FallbackHeading)
    /\ h.content0 # ""
    /\ h.elements # << >>
    /\ content = h.content0 \o h.testCaseEntry

(***************************************************************************)
(* Properties of the extraction (specification SpecExtract).               *)
(***************************************************************************)
Returned == xpc = "returned"

\* every match of every pattern in the text: pattern index, position, groups
AllMatches(text) ==
    { [p |-> p, i |-> i, m |-> MatchAt(text, i, patterns[p])] :
        <<p, i>> \in { pi \in (1..NumPatterns) \X (0..Len(text)) :
                          MatchAt(text, pi[2], patterns[pi[1]]).found } }

Selectors(els) == { els[k].selector : k \in 1..Len(els) }

SelectorsDistinct(els) ==
    \A k, l \in 1..Len(els) : els[k].selector = els[l].selector => k = l

\* C5: the selectors of the elements are pairwise distinct at every point of
\* the scan; a match whose selector was accepted before adds nothing, and
\* an accepted element is never changed afterwards (name, selector, type).
C5_Dedup ==
    /\ [](/\ SelectorsDistinct(ex.elements)
          /\ Selectors(ex.elements) = ex.seenSelectors)
    /\ [][/\ Len(ex'.elements) >= Len(ex.elements)
          /\ SubSeq(ex'.elements, 1, Len(ex.elements)) = ex.elements
          /\ (/\ Scanning
              /\ NextMatch.found
              /\ selectorOf(NextMatch) \in ex.seenSelectors)
                 => ex'.elements = ex.elements]_vars

\* a finished scan of a text in which two different patterns matched the
\* same selector, which is held by exactly one element
C5_Witness ==
    /\ Returned
    /\ \E a, b \in AllMatches(code) :
           /\ a.p # b.p
           /\ selectorOf(a.m) = selectorOf(b.m)
           /\ Cardinality({k \in 1..Len(ex.elements) :
                              ex.elements[k].selector = selectorOf(a.m)}) = 1

\* the selector value the pattern list of the specification gives a match:
\* the accessible name for a getByRole call, the quoted string otherwise
NamedSelector(x) == IF patterns[x.p].kind = "role" THEN x.m.g2 ELSE x.m.g1

Precedes(a, b) == a.p < b.p \/ (a.p = b.p /\ a.i < b.i)

\* C6: a text whose N matches carry pairwise-distinct selectors gives
\* exactly N elements, ordered by pattern index, then by position.
C6_CountAndOrder ==
    LET M == AllMatches(code)
    IN  (/\ Returned
         /\ \A a, b \in M : NamedSelector(a) = NamedSelector(b) => a = b) =>
            /\ Len(ex.elements) = Cardinality(M)
            /\ \A k, l \in 1..Len(ex.elements) :
                   k < l => \E a, b \in M :
                                /\ NamedSelector(a) = ex.elements[k].selector
                                /\ NamedSelector(b) = ex.elements[l].selector
                                /\ Precedes(a, b)

\* C7: every getByRole call with a name gives an element whose selector is
\* the accessible name, so that same-role calls with different names give
\* different elements.
C7_RoleSelectorIsName ==
    Returned =>
        \A x \in AllMatches(code) :
            patterns[x.p].kind = "role" =>
                \E k \in 1..Len(ex.elements) : ex.elements[k].selector = x.m.g2

\* a click / fill invocation chained to the selector, in either quote style
ClickChained(text, selector) ==
    \E q1, q2 \in QuoteChars :
        \/ includes(text, "(" \o q1 \o selector \o q2 \o ").click(")
        \/ includes(text, "click(" \o q1 \o selector \o q2)

FillChained(text, selector) ==
    \E q1, q2 \in QuoteChars :
        \/ includes(text, "(" \o q1 \o selector \o q2 \o ").fill(")
        \/ includes(text, "fill(" \o q1 \o selector \o q2)

\* C8: an element whose selector has a click invocation chained to it in
\* the text is a BUTTON; page.locator('#submitBtn').click(); gives the one
\* element BUTTON_1 with selector #submitBtn.
C8_ClickIsButton ==
    /\ \A k \in 1..Len(ex.elements) :
           ClickChained(code, ex.elements[k].selector)
               => ex.elements[k].type = "BUTTON"
    /\ (Returned /\ code = "page.locator('#submitBtn').click();") =>
           ex.elements = << [name |-> "BUTTON_1", selector |-> "#submitBtn",
                             type |-> "BUTTON"] >>

\* C9: an element whose selector has a fill invocation and no click
\* invocation chained to it is a TEXTBOX, whatever the fill call's argument.
C9_FillIsTextbox ==
    \A k \in 1..Len(ex.elements) :
        (/\ FillChained(code, ex.elements[k].selector)
         /\ ~ClickChained(code, ex.elements[k].selector))
            => ex.elements[k].type = "TEXTBOX"

Categories == {"BUTTON", "TEXTBOX", "INPUT", "ICON", "LINK", "ELEMENT"}

\* C10: without a chained click or fill the category is given by the first
\* substring rule that matches: input, button or btn, icon, link or a[,
\* else ELEMENT; and every category is one of the six.
C10_SubstringChain ==
    \A k \in 1..Len(ex.elements) :
        LET el == ex.elements[k]
        IN  /\ el.type \in Categories
            /\ (~ClickChained(code, el.selector) /\ ~FillChained(code, el.selector))
                   => el.type =
                        CASE Occurs(el.selector, "input") -> "INPUT"
                          [] ~Occurs(el.selector, "input")
                             /\ (Occurs(el.selector, "button")
                                 \/ Occurs(el.selector, "btn")) -> "BUTTON"
                          [] ~Occurs(el.selector, "input")
                             /\ ~Occurs(el.selector, "button")
                             /\ ~Occurs(el.selector, "btn")
                             /\ Occurs(el.selector, "icon") -> "ICON"
                          [] ~Occurs(el.selector, "input")
                             /\ ~Occurs(el.selector, "button")
                             /\ ~Occurs(el.selector, "btn")
                             /\ ~Occurs(el.selector, "icon")
                             /\ (Occurs(el.selector, "link")
                                 \/ Occurs(el.selector, "a[")) -> "LINK"
                          [] OTHER -> "ELEMENT"

\* an unchained selector holding both "input" and "btn" was classified
C10_Witness ==
    /\ Returned
    /\ \E k \in 1..Len(ex.elements) :
           /\ Occurs(ex.elements[k].selector, "input")
           /\ Occurs(ex.elements[k].selector, "btn")
           /\ ~ClickChained(code, ex.elements[k].selector)
           /\ ~FillChained(code, ex.elements[k].selector)
           /\ ex.elements[k].type = "INPUT"

\* C11: the element at position i carries ordinal i: its name is its own
\* category, an underscore and i; the one counter is one more than the
\* number of accepted elements, whatever their categories and however many
\* duplicates were skipped.
C11_DenseOrdinals ==
    /\ ex.counter = Len(ex.elements) + 1
    /\ \A i \in 1..Len(ex.elements) :
           ex.elements[i].name = ex.elements[i].type \o "_" \o ToString(i)

\* a finished scan that skipped duplicates and returned two elements of
\* different categories
C11_Witness ==
    /\ Returned
    /\ Len(ex.elements) = 2
    /\ ex.elements[1].type # ex.elements[2].type
    /\ Cardinality(AllMatches(code)) > Len(ex.elements)

\* C12: no input makes the function fail: while the patterns are scanned
\* every step is defined and moves the scan on (to a later position or to
\* the next pattern), so the scan reaches its return; the returned result
\* is empty exactly when no pattern matches the text.
C12_NeverFails ==
    /\ Scanning =>
           LET n == ExtractStep(code, ex)
           IN  \/ n.pidx = ex.pidx + 1 /\ n.lastIndex = 0
               \/ /\ n.pidx = ex.pidx
                  /\ n.lastIndex > ex.lastIndex
                  /\ n.lastIndex <= Len(code)
    /\ xpc # "idle" => ex.pidx \in 1..(NumPatterns + 1)
    /\ Returned => (ex.elements = << >> <=> AllMatches(code) = {})

\* the empty text, and a non-empty text without any match, returned the
\* empty result
C12_Witness ==
    /\ Returned
    /\ code = "page.goto('/home');"
    /\ AllMatches(code) = {}
    /\ ex.elements = << >>

(***************************************************************************)
(* Properties of the rendering (specification SpecRender).                 *)
(***************************************************************************)
Rendered == h.outcome = "rendered"

CountOcc(s, pat) == Cardinality({i \in 0..Len(s) : StartsAt(s, pat, i)})

\* occurrences of pat inside the field texts the test fragment copies
\* (the name twice)
FieldOccurrences(d, pat) ==
    2 * CountOcc(Field(d, "name"), pat)
    + CountOcc(Field(d, "description"), pat)
    + CountOcc(Field(d, "steps"), pat)
    + CountOcc(Field(d, "browser"), pat)
    + CountOcc(Field(d, "url"), pat)
    + (IF "testCaseType" \in DOMAIN d
       THEN CountOcc(d.testCaseType, pat) ELSE 0)

TestHeading(d) == "\n\n### " \o Field(d, "name") \o " Test\n\n"

\* C13 as stated: with an empty extraction no Page Elements heading and no
\* fenced-code marker appears anywhere in the block, and the test fragment
\* is in the block.
C13_NoMarkerInBlock ==
    Rendered =>
        /\ Occurs(h.testCaseEntry, TestHeading(h.testCaseData))
        /\ h.elements = << >> =>
               /\ ~Occurs(h.testCaseEntry, " Page Elements")
               /\ ~Occurs(h.testCaseEntry, Fence)

\* C13: with an empty extraction the block is the test fragment alone: it
\* begins with the test heading, and the only Page Elements texts and
\* fenced-code markers in it are those the record's own fields hold; the
\* test fragment is in every block.
C13_NoElementsFragment ==
    Rendered =>
        /\ Occurs(h.testCaseEntry, TestHeading(h.testCaseData))
        /\ h.elements = << >> =>
               /\ StartsAt(h.testCaseEntry, TestHeading(h.testCaseData), 0)
               /\ CountOcc(h.testCaseEntry, " Page Elements")
                      = FieldOccurrences(h.testCaseData, " Page Elements")
               /\ CountOcc(h.testCaseEntry, Fence)
                      = FieldOccurrences(h.testCaseData, Fence)

\* a block rendered for a text without matches whose description holds a
\* fenced-code marker
C13_Witness ==
    /\ Rendered
    /\ h.elements = << >>
    /\ Field(h.testCaseData, "playwrightCode") = "page.goto('/home');"
    /\ Occurs(Field(h.testCaseData, "description"), Fence)
    /\ Occurs(h.testCaseEntry, Fence)

ElementsHeading(d) ==
    "\n\n### " \o Field(d, "name") \o " Page Elements\n\n"
    \o Fence \o "typescript\n"

TestFragment(d, type) ==
    TestHeading(d)
    \o "**" \o Field(d, "name") \o "**: " \o Field(d, "description")
    \o "\n- Type: " \o type
    \o "\n- " \o Field(d, "steps")
    \o "\n- Browser: " \o Field(d, "browser")
    \o "\n- URL: " \o Field(d, "url")
    \o "\n- Recorded: " \o DateToLocaleString(Field(d, "timestamp"))

EndsWith(s, t) ==
    Len(t) <= Len(s) /\ slice(s, Len(s) - Len(t), Len(s)) = t

\* C15 as stated: the block ends with the fields in the fixed order, the
\* Type line showing testCaseType whenever the record supplies it and UI
\* when it does not.
C15_TypeAsSupplied ==
    Rendered =>
        LET d == h.testCaseData
        IN  EndsWith(h.testCaseEntry,
                TestFragment(d, IF "testCaseType" \in DOMAIN d
                                THEN d.testCaseType ELSE "UI"))

\* C15: the block ends with the fields in the fixed order name heading,
\* bold name, description, Type, steps, Browser, URL, Recorded, each field
\* copied as supplied (a missing one as the text undefined, the timestamp
\* through the local date format); the Type line shows testCaseType when
\* it is supplied and not empty, and UI when it is absent or empty.
C15_TestFragment ==
    Rendered =>
        LET d == h.testCaseData
        IN  EndsWith(h.testCaseEntry,
                TestFragment(d, IF /\ "testCaseType" \in DOMAIN d
                                   /\ d.testCaseType # ""
                                THEN d.testCaseType ELSE "UI"))

\* blocks were rendered for a record with an empty testCaseType, whose
\* Type line shows UI
C15_Witness ==
    /\ Rendered
    /\ "testCaseType" \in DOMAIN h.testCaseData
    /\ h.testCaseData.testCaseType = ""
    /\ Occurs(h.testCaseEntry, "\n- Type: UI\n- ")

(***************************************************************************)
(* Properties of the save-testcase handler (specification SpecFaults).     *)
(***************************************************************************)
NotFoundMessage == "PROJECT_CONTEXT.md file not found"

Answered(r) == resp[r].sent

\* the kind of value the body of request r decodes to
BodyKind(r) == JSONparse(reqs[r].body).kind

FileOps(r) == { reqs[r].io[i] : i \in 1..Len(reqs[r].io) }

\* C16 as stated: without the document every request is answered with
\* success = false and the not-found message, and the document is neither
\* created nor written.
C16_NotFoundAlways ==
    /\ [](~fileExists =>
            /\ content = ""
            /\ \A r \in Requests : Answered(r) =>
                   /\ ~resp[r].success
                   /\ resp[r].message = NotFoundMessage
                   /\ FileOps(r) \subseteq {"exists", "respond"})
    /\ [][fileExists' = fileExists]_vars

\* C16: without the document every request is answered with success =
\* false, after at most one look for the document and no read and no write;
\* the message is the not-found message when the body decodes to a value
\* other than null, and the decoding error's message otherwise; the
\* document is neither created nor written.
C16_DocumentMissing ==
    /\ [](~fileExists =>
            /\ content = ""
            /\ \A r \in Requests : Answered(r) =>
                   /\ ~resp[r].success
                   /\ resp[r].message = NotFoundMessage
                          <=> BodyKind(r) \in {"object", "number"}
                   /\ reqs[r].io \in {<< "respond" >>,
                                      << "exists", "respond" >>})
    /\ [][fileExists' = fileExists]_vars

\* without the document one request got the not-found answer and another,
\* whose body does not decode, the decoding error
C16_Witness ==
    /\ ~fileExists
    /\ \E r, q \in Requests :
           /\ Answered(r) /\ resp[r].message = NotFoundMessage
           /\ Answered(q) /\ resp[q].message # NotFoundMessage
           /\ BodyKind(q) = "none"

\* C17: a request whose handling meets an error (a body that does not
\* decode, a body that is not an object, a failed read) is answered with
\* success = false, every request that ends is answered, and the document
\* such a request leaves is the one it found.
C17_ErrorsAreFailures ==
    /\ \A r \in Requests :
           /\ reqs[r].phase = "done" <=> Answered(r)
           /\ (Answered(r) /\ BodyKind(r) # "object") => ~resp[r].success
           /\ (Answered(r) /\ "write" \notin FileOps(r)) => ~resp[r].success
    /\ (h.outcome # "none" /\ BodyKind(h.req) # "object") =>
           h.outcome # "saved"

C20_OneReadOneWrite ==
    /\ [](\A r \in Requests :
            LET io == reqs[r].io
            IN  /\ Cardinality({i \in 1..Len(io) : io[i] = "read"}) <= 1
                /\ Cardinality({i \in 1..Len(io) : io[i] = "write"}) <= 1
                /\ \A i, j \in 1..Len(io) :
                       (io[i] = "write" /\ io[j] = "read") => j < i
                /\ \A i \in 1..Len(io) : io[i] = "respond" => i = Len(io)
                /\ Answered(r) <=> (io # << >> /\ io[Len(io)] = "respond")
                /\ "write" \in FileOps(r) => "read" \in FileOps(r))
    /\ [][\A r \in Requests :
            Answered(r) => (reqs'[r] = reqs[r] /\ resp'[r] = resp[r])]_vars
    /\ [][content' # content =>
            \E r \in Requests :
                /\ ~Answered(r)
                /\ resp'[r].sent
                /\ "write" \in { reqs'[r].io[i] : i \in 1..Len(reqs'[r].io) }
                /\ \A q \in Requests \ {r} : reqs'[q] = reqs[q]]_vars

\* two requests each read and wrote the document once and were answered
C20_Witness ==
    /\ \A r \in Requests :
           reqs[r].io = << "exists", "read", "write", "respond" >>
    /\ Len(content) > Len(h.content0)
    /\ Len(h.content0) > 0

(***************************************************************************)
(* Properties of a sequence of calls (specification SpecCalls).            *)
(***************************************************************************)
\* C19: the result of every call is the one value the text alone fixes:
\* two calls with the same text return equal results whatever their
\* testName and whatever calls came before; and no step of a call changes
\* the document or any state of the server.
C19_PureFunction ==
    /\ [](\A i, j \in 1..Len(calls) :
              calls[i].code = calls[j].code
                  => calls[i].result = calls[j].result)
    /\ [](\A i \in 1..Len(calls) :
              calls[i].result = extractElementsFromCode(calls[i].code))
    /\ [](xpc = "scan" /\ ex.pidx = 1 /\ ex.lastIndex = 0
              => ex = ExtractStart)
    /\ [][serverVars' = serverVars]_vars

\* a second call with the text of the first, under another testName and
\* after a scan that skipped a duplicate, returned the same two elements
C19_Witness ==
    /\ Len(calls) = 2
    /\ calls[1].code = calls[2].code
    /\ calls[1].testName # calls[2].testName
    /\ Len(calls[1].result) = 2
    /\ calls[1].result = calls[2].result

\* two texts of one length that agree at every position, or have a single
\* quote where the other has a double quote
SameUpToQuoteStyle(a, b) ==
    /\ Len(a) = Len(b)
    /\ \A k \in 0..(Len(a) - 1) :
           \/ CharAt(a, k) = CharAt(b, k)
           \/ {CharAt(a, k), CharAt(b, k)} = {"'", "\""}

\* C25: two calls whose texts differ only in the quote style (single or
\* double) return equal results: the same selectors, categories and
\* ordinals.
C25_QuoteStyleIndependent ==
    \A i, j \in 1..Len(calls) :
        SameUpToQuoteStyle(calls[i].code, calls[j].code)
            => calls[i].result = calls[j].result

(***************************************************************************)
(* Properties of the save-testcase responses (specification                *)
(* SpecFaultsFair).                                                        *)
(***************************************************************************)
\* C21: a request whose body has been received is answered, once: its
\* response never changes afterwards; the answer is success = true exactly
\* when the handler wrote the document, the write coming before the answer,
\* and the step that answers success = true is the step that puts the
\* patched document on disk.
C21_OneAnswerSuccessIffWritten ==
    /\ \A r \in Requests : Ended(r) ~> Answered(r)
    /\ [](\A r \in Requests :
              Answered(r) =>
                  /\ resp[r].success <=> "write" \in FileOps(r)
                  /\ reqs[r].io[Len(reqs[r].io)] = "respond"
                  /\ Cardinality({i \in 1..Len(reqs[r].io) :
                                     reqs[r].io[i] = "respond"}) = 1)
    /\ [][\A r \in Requests :
              /\ Answered(r) => resp'[r] = resp[r]
              /\ (~Answered(r) /\ resp'[r].sent) =>
                     (resp'[r].success <=> content' # content)]_vars

\* one request was answered success = true after its write, another was
\* answered success = false after a write that failed
C21_Witness ==
    \E r, q \in Requests :
        /\ Answered(r) /\ resp[r].success
        /\ reqs[r].io = << "exists", "read", "write", "respond" >>
        /\ Answered(q) /\ ~resp[q].success
        /\ reqs[q].io = << "exists", "read", "writeFailed", "respond" >>

(***************************************************************************)
(* Properties of a sequence of saves (specification Spec).                 *)
(***************************************************************************)
\* the blocks occur in doc one after another, without overlap, the k-th and
\* later ones at or after position from
RECURSIVE InOrder(_, _, _, _)
InOrder(doc, blocks, k, from) ==
    IF k > Len(blocks) THEN TRUE
    ELSE LET i == indexOf(doc, blocks[k], from)
         IN  /\ i # -1
             /\ InOrder(doc, blocks, k + 1, i + Len(blocks[k]))

\* no saved entry holds a text the placement searches for
NoSearchedText(blocks) ==
    \A k \in 1..Len(blocks) :
        /\ ~Occurs(blocks[k], AnchorHeading)
        /\ ~Occurs(blocks[k], FallbackHeading)
        /\ ~Occurs(blocks[k], TopLevelMark)

\* C22: after any sequence of successful saves whose entries hold neither
\* heading text nor a newline followed by "## ", every saved entry is in
\* the document as one contiguous span, and the entries follow one another
\* in the order in which they were saved.
C22_BlocksKeptInOrder ==
    NoSearchedText(saved) => InOrder(content, saved, 1, 0)

\* two different entries saved into the anchor section of a document that
\* has a top-level heading after the anchor
C22_Witness ==
    /\ Len(saved) = 2
    /\ saved[1] # saved[2]
    /\ NoSearchedText(saved)
    /\ Occurs(content, AnchorHeading)
    /\ \E n \in 0..Len(content) :
           /\ StartsAt(content, saved[2] \o "\n" \o TopLevelMark, n)
           /\ indexOf(content, saved[1], 0) < n

\* position p of doc is the start of a line, the end of a line or the
\* document end
LineBoundary(doc, p) ==
    \/ p = 0
    \/ p = Len(doc)
    \/ CharAt(doc, p) = "\n"
    \/ CharAt(doc, p - 1) = "\n"

\* C26: every successful save put its block at a line boundary of the
\* document it read: the text before that boundary and the text after it
\* are the original's, and the rendered entry starts right at the boundary.
C26_LineBoundary ==
    Saved =>
        \E p \in 0..Len(h.content0) :
            /\ LineBoundary(h.content0, p)
            /\ StartsAt(content, h.testCaseEntry, p)
            /\ slice(content, 0, p) = slice(h.content0, 0, p)
            /\ slice(content, p + (Len(content) - Len(h.content0)), Len(content))
                   = slice(h.content0, p, Len(h.content0))

(***************************************************************************)
(* Properties of requests in flight together (specification SpecSteps).    *)
(***************************************************************************)
\* the 'end' callback of r has read the document and not yet returned
InReadModifyWrite(r) == loop.frames[r].pc \in {"write", "respond"}

\* C23: with requests in flight together and their chunks arriving in any
\* order, at most one request is between its read and its answer; the
\* document a request is about to patch is the document on disk; no update
\* is lost: every entry saved so far is in the document, in the order of
\* the saves, so that once both requests have succeeded the document holds
\* both their entries.
C23_NoLostUpdate ==
    /\ \A r, q \in Requests :
           (InReadModifyWrite(r) /\ InReadModifyWrite(q)) => r = q
    /\ \A r \in Requests :
           loop.frames[r].pc = "write" => loop.frames[r].content = content
    /\ InOrder(content, saved, 1, 0)
    /\ Len(saved) = Cardinality({r \in Requests :
                                    loop.frames[r].pc \in {"respond", "done"}})

\* both requests were answered success = true after their chunks arrived
\* interleaved, the request that connected second having written first, and
\* the document holds the two different entries
C23_Witness ==
    /\ \A r \in Requests : Answered(r) /\ resp[r].success
    /\ Len(saved) = 2
    /\ saved[1] # saved[2]
    /\ h.req = 1
    /\ h.testCaseEntry = saved[2]
    /\ Occurs(content, saved[1])
    /\ Occurs(content, saved[2])

(***************************************************************************)
(* Termination of the extraction (specification SpecExtractFair).          *)
(***************************************************************************)
\* what is left to scan: the patterns not yet finished, and the text after
\* lastIndex for the pattern under scan
ScanLeft(e, text) ==
    (NumPatterns + 1 - e.pidx) * (Len(text) + 1) + (Len(text) - e.lastIndex)

\* C24: the call returns on every text: every match is non-empty and ends
\* after the position the scan was at, so every step of a scan, a skipped
\* duplicate included, leaves strictly less to scan, and each of the eight
\* scans ends.
C24_Terminates ==
    /\ <>Returned
    /\ [](Scanning /\ NextMatch.found =>
              /\ NextMatch.end > ex.lastIndex
              /\ Len(NextMatch.g1) > 0)
    /\ [][Scanning => /\ ScanLeft(ex', code) < ScanLeft(ex, code)
                      /\ ScanLeft(ex', code) >= 0]_vars

\* a returned call on a text in which some pattern's every match is a
\* duplicate of a selector an earlier pattern gave
C24_Witness ==
    /\ Returned
    /\ \E p \in 2..NumPatterns :
           /\ \E a \in AllMatches(code) : a.p = p
           /\ \A a \in AllMatches(code) :
                  a.p = p => \E b \in AllMatches(code) :
                                 /\ b.p < p
                                 /\ selectorOf(b.m) = selectorOf(a.m)

(***************************************************************************)
(* Properties of the routes (specification SpecRoutes).                    *)
(***************************************************************************)
\* the commands the handling of request r ran with exec
Launches(r) ==
    {i \in 1..Len(reqs[r].io) : StartsAt(reqs[r].io[i], "exec ", 0)}

IsRecording(r) ==
    reqs[r].method = "POST" /\ reqs[r].url = "/start-recording"

\* C27: an answered start-recording request launched a process only if its
\* decoded body has a non-empty browser and a non-empty url; with either one
\* missing the answer is 400, success = false, and nothing was launched;
\* with a body that does not decode the answer is 500, success = false, and
\* nothing was launched; with both present exactly one process was launched.
C27_LaunchOnlyWhenValid ==
    \A r \in Requests :
        (Answered(r) /\ IsRecording(r)) =>
            LET d       == JSONparseRecording(reqs[r].body)
                missing == Falsy(d.data, "browser") \/ Falsy(d.data, "url")
            IN  /\ Launches(r) # {} => d.ok /\ ~missing
                /\ (d.ok /\ missing) =>
                       /\ resp[r].status = 400
                       /\ ~resp[r].success
                       /\ Launches(r) = {}
                /\ ~d.ok =>
                       /\ resp[r].status = 500
                       /\ ~resp[r].success
                       /\ Launches(r) = {}
                /\ (d.ok /\ ~missing) => Cardinality(Launches(r)) = 1

\* the (method, url) pairs the if-chain of the callback has a branch for
PostRoutes == {"/start-recording", "/save-testcase"} \cup ReportUrls

MatchesRoute(m, u) ==
    \/ m = "POST" /\ u \in PostRoutes
    \/ u \in DashboardUrls \cup {DocumentUrl}

\* C28: a step changes the document only as a step of a POST /save-testcase
\* request, a process is launched only for a POST to /start-recording or to
\* an endpoint that opens a report; an OPTIONS request, whatever its URL, is
\* answered 200 without a body, a request with no route is answered 404 with
\* success = false, and neither made a file operation or launched a process.
C28_OnlyRoutesAct ==
    /\ [][(content' # content \/ fileExists' # fileExists) =>
             \E r \in Requests :
                 /\ reqs[r].method = "POST"
                 /\ reqs[r].url = "/save-testcase"
                 /\ reqs'[r] # reqs[r]]_vars
    /\ [](\A r \in Requests :
              Launches(r) # {} =>
                  /\ reqs[r].method = "POST"
                  /\ reqs[r].url \in {"/start-recording"} \cup ReportUrls)
    /\ [](\A r \in Requests :
              (Answered(r) /\ reqs[r].method = "OPTIONS") =>
                  /\ resp[r].status = 200
                  /\ resp[r].type = "none"
                  /\ resp[r].message = ""
                  /\ reqs[r].io = << "respond" >>)
    /\ [](\A r \in Requests :
              (Answered(r) /\ reqs[r].method # "OPTIONS"
                           /\ ~MatchesRoute(reqs[r].method, reqs[r].url)) =>
                  /\ resp[r].status = 404
                  /\ resp[r].type = "json"
                  /\ ~resp[r].success
                  /\ reqs[r].io = << "respond" >>)

\* an OPTIONS request to the URL of the document and a GET to the save
\* endpoint have both been answered, next to a document a save has changed
\* or not
C28_Witness ==
    \E r, q \in Requests :
        /\ Answered(r) /\ reqs[r].method = "OPTIONS"
        /\ reqs[r].url = DocumentUrl
        /\ Answered(q) /\ reqs[q].method = "GET"
        /\ reqs[q].url = "/save-testcase"
        /\ resp[q].status = 404

====
